---------------------------- MODULE Spec2Model ----------------------------
(***************************************************************************)
(* Model of generate_icons.py: the Android launcher-icon generator.        *)
(*                                                                         *)
(* One invocation of the script is a straight-line run: the module-level   *)
(* imports, main(), and generate_icons() with its crop / convert / resize  *)
(* loop.  The model keeps the file system (files and density directories), *)
(* the working image, the console output and the exit status, and a few    *)
(* history variables (the operations performed, the file system at the     *)
(* start of the run) that the properties below refer to.                   *)
(*                                                                         *)
(* An image is abstracted to its width, height, colour mode and container  *)
(* format; pixel content is not modelled.  The console is assumed to be    *)
(* writable (print never raises).                                          *)
(***************************************************************************)
EXTENDS Integers, Sequences, FiniteSets, TLC

(***************************************************************************)
(* Bounds of the model.                                                    *)
(***************************************************************************)
\* Small input edge lengths 1..MaxDim are enumerated beside SampleShapes.
MaxDim == 2
\* Number of consecutive invocations on the same command line.
MaxRuns == 2

(***************************************************************************)
(* Program constants (src/generate_icons.py:12-21).                        *)
(***************************************************************************)
\* Mutant: a mistyped table entry (xxhdpi 128 instead of 144).
ICON_SIZES_typo ==
    << [folder |-> "mipmap-mdpi",    size |-> 48],
       [folder |-> "mipmap-hdpi",    size |-> 72],
       [folder |-> "mipmap-xhdpi",   size |-> 96],
       [folder |-> "mipmap-xxhdpi",  size |-> 128],
       [folder |-> "mipmap-xxxhdpi", size |-> 192] >>

\* Mutant: the table iterated in sorted key order instead of insertion order.
ICON_SIZES_sorted ==
    << [folder |-> "mipmap-hdpi",    size |-> 72],
       [folder |-> "mipmap-mdpi",    size |-> 48],
       [folder |-> "mipmap-xhdpi",   size |-> 96],
       [folder |-> "mipmap-xxhdpi",  size |-> 144],
       [folder |-> "mipmap-xxxhdpi", size |-> 192] >>

\* ICON_SIZES, in insertion order (dict iteration order of line 56).
ICON_SIZES ==
    << [folder |-> "mipmap-mdpi",    size |-> 48],
       [folder |-> "mipmap-hdpi",    size |-> 72],
       [folder |-> "mipmap-xhdpi",   size |-> 96],
       [folder |-> "mipmap-xxhdpi",  size |-> 144],
       [folder |-> "mipmap-xxxhdpi", size |-> 192] >>

BASE_DIR == "project_guideline/android/java/com/google/research/guideline/res"

\* The default input path of main() when no argument is given (line 93).
DEFAULT_IMAGE == "icon.png"

NumSizes == Len(ICON_SIZES)

Folders == { ICON_SIZES[i].folder : i \in 1..NumSizes }

\* os.path.join(BASE_DIR, folder)   (line 57)
output_dir(folder) == BASE_DIR \o "/" \o folder

\* Mutant: the output path joined without the base directory.
output_path_relative(folder) == folder \o "/" \o "ic_launcher.png"

\* os.path.join(output_dir, 'ic_launcher.png')   (line 66)
output_path(folder) == output_dir(folder) \o "/" \o "ic_launcher.png"

OutputPaths == { output_path(f) : f \in Folders }


\* Every path the model distinguishes: the default input, another input
\* outside the resource tree, and the five output files.
Paths == {DEFAULT_IMAGE, "logo.png"} \cup OutputPaths

(***************************************************************************)
(* Files and images.                                                       *)
(***************************************************************************)
\* Colour modes of the image library that the inputs range over.
Modes == {"RGBA", "LA", "RGB", "P"}

\* (mode, container format) pairs of the enumerated input files.
ModeFmt == { <<"RGBA", "PNG">>, <<"LA", "PNG">>, <<"P", "PNG">>, <<"RGB", "JPEG">> }

\* Illustrative input shapes <<width, height>> beside the small ones.
SampleShapes == { <<512, 512>>, <<1000, 800>>, <<800, 1000>>, <<1001, 800>> }

Shapes == ((1..MaxDim) \X (1..MaxDim)) \cup SampleShapes

\* No file at a path.
NoFile == [kind |-> "absent", w |-> 0, h |-> 0, mode |-> "none", fmt |-> "none"]

\* A file that the image library cannot identify or read (Image.open raises
\* an error other than FileNotFoundError), or a partially written file.
CorruptFile == [kind |-> "corrupt", w |-> 0, h |-> 0, mode |-> "none", fmt |-> "none"]

\* Decodable image files: "ok", or "truncated" (header readable, pixel data
\* incomplete: Image.open succeeds, the first load of pixel data raises).
ImageFiles ==
    { [kind |-> k, w |-> s[1], h |-> s[2], mode |-> mf[1], fmt |-> mf[2]] :
        k \in {"ok", "truncated"}, s \in Shapes, mf \in ModeFmt }

InputFiles == {NoFile, CorruptFile} \cup ImageFiles

\* An icon left by an earlier build at an output path.
OldIcon == [kind |-> "ok", w |-> 1, h |-> 1, mode |-> "RGB", fmt |-> "PNG"]

\* No image object yet.
NoImg == [kind |-> "none", w |-> 0, h |-> 0, mode |-> "none"]

\* Image.open(path) on an existing, identifiable file: size and mode come
\* from the header; pixel data is loaded lazily.   (line 34)
Image_open(file) == [kind |-> file.kind, w |-> file.w, h |-> file.h, mode |-> file.mode]

\* min(width, height)   (line 43)
Min(a, b) == IF a < b THEN a ELSE b

\* Mutant: the margins rounded up instead of down.
CropBox_roundup(width, height) ==
    LET size   == Min(width, height)
        left   == (width - size + 1) \div 2
        top    == (height - size + 1) \div 2
        right  == left + size
        bottom == top + size
    IN  <<left, top, right, bottom>>

\* The crop box (left, top, right, bottom) of lines 43-47.
CropBox(width, height) ==
    LET size   == Min(width, height)
        left   == (width - size) \div 2
        top    == (height - size) \div 2
        right  == left + size
        bottom == top + size
    IN  <<left, top, right, bottom>>

\* img.crop(box): the region's width and height, same mode; the pixel data
\* is loaded.   (line 48)
Image_crop(im, box) ==
    [kind |-> "ok", w |-> box[3] - box[1], h |-> box[4] - box[2], mode |-> im.mode]

\* img.convert('RGBA')   (line 53)
Image_convert(im, mode) == [kind |-> "ok", w |-> im.w, h |-> im.h, mode |-> mode]

\* Mutant: thumbnail semantics, the image is never enlarged.
Image_thumbnail(im, size) ==
    [kind |-> "ok", w |-> Min(size[1], im.w), h |-> Min(size[2], im.h), mode |-> im.mode]

\* img.resize((size, size), LANCZOS): the requested size, same mode.  (line 63)
Image_resize(im, size) == [kind |-> "ok", w |-> size[1], h |-> size[2], mode |-> im.mode]

\* The file resized_img.save(output_path, 'PNG') writes.   (line 67)
Image_save(im, format) ==
    [kind |-> "ok", w |-> im.w, h |-> im.h, mode |-> im.mode, fmt |-> format]

(***************************************************************************)
(* Conditions of generate_icons (lines 38, 52, 63).                        *)
(***************************************************************************)
\* Mutant: only landscape images are cropped.
NeedsCrop_landscape(width, height) == width > height

\* if width != height   (line 38)
NeedsCrop(width, height) == width # height

\* Mutant: any mode that has an alpha channel is left as it is.
NeedsConvert_alpha(mode) == mode \notin {"RGBA", "LA"}

\* if img.mode != 'RGBA'   (line 52)
NeedsConvert(mode) == mode # "RGBA"

\* The (size, size) passed to resize   (line 63)
ResizeArg(size) == <<size, size>>

(***************************************************************************)
(* State.                                                                  *)
(***************************************************************************)
VARIABLES
    pilAvailable,  \* environment: the Pillow package can be imported
    argv,          \* sys.argv[1:], <<>> when no argument is given
    fs,            \* the file at each path
    dirs,          \* the density directories that exist
    pc,            \* position of the run
    run,           \* number of the current invocation
    input_image,   \* main's input_image / generate_icons' input_image_path
    img,           \* the working image
    idx,           \* position of the for loop in ICON_SIZES
    resized_img,   \* the resized image of the current iteration
    out,           \* console output of the run, one tag per message
    exitCode,      \* exit status, -1 while the run is in progress
    ops,           \* history: image / file-system operations started in the run
    opened,        \* history: the image as Image.open returned it
    fsStart,       \* history: fs when the run started
    dirsStart,     \* history: dirs when the run started
    prevExit       \* history: exit status of the previous run, -1 if none

vars == << pilAvailable, argv, fs, dirs, pc, run, input_image, img, idx,
           resized_img, out, exitCode, ops, opened, fsStart, dirsStart, prevExit >>

env  == << pilAvailable, argv >>
hist == << fsStart, dirsStart, prevExit, run >>

\* The path a run reads: sys.argv[1] if given, else the default (lines 89-93).
InputPathOf(args) == IF Len(args) > 0 THEN args[1] ELSE DEFAULT_IMAGE

\* Folder of an output file that exists implies its directory exists.
DirsOf(files) == { output_dir(f) : f \in { g \in Folders : files[output_path(g)] # NoFile } }

\* Command lines: no argument, an image outside the resource tree, and an
\* image that is itself one of the generated icons.
ArgvChoices == { <<>>, <<"logo.png">>, <<output_path("mipmap-hdpi")>> }

Init ==
    /\ pilAvailable \in BOOLEAN
    /\ argv \in ArgvChoices
    /\ \E file \in InputFiles, old \in {NoFile, OldIcon} :
          fs = [p \in Paths |->
                  IF p = InputPathOf(argv) THEN file
                  ELSE IF p \in OutputPaths THEN old
                  ELSE NoFile]
    /\ dirs = DirsOf(fs)
    /\ pc = "import"
    /\ run = 1
    /\ input_image = ""
    /\ img = NoImg
    /\ idx = 0
    /\ resized_img = NoImg
    /\ out = <<>>
    /\ exitCode = -1
    /\ ops = <<>>
    /\ opened = NoImg
    /\ fsStart = fs
    /\ dirsStart = dirs
    /\ prevExit = -1

\* One entry of the operation history.
Op(name, k, arg, ok) == [op |-> name, k |-> k, arg |-> arg, ok |-> ok]

(***************************************************************************)
(* Exits.                                                                  *)
(***************************************************************************)
\* Mutant: the generic clause catches everything (FileNotFoundError clause
\* missing or placed after `except Exception`).
Except_generic(exc, printed) ==
    /\ out' = Append(printed, "err_exception")
    /\ exitCode' = 1
    /\ pc' = "exited"

\* Mutant: the handlers exit with status 0.
Except_exit0(exc, printed) ==
    /\ out' = printed \o (IF exc = "FileNotFoundError"
                            THEN <<"err_not_found", "hint_check_file">>
                            ELSE <<"err_exception">>)
    /\ exitCode' = 0
    /\ pc' = "exited"

\* The except clauses of generate_icons (lines 74-80): print, sys.exit(1).
\* `printed` is the console output up to the raise.
Except(exc, printed) ==
    /\ out' = printed \o (IF exc = "FileNotFoundError"
                        THEN <<"err_not_found", "hint_check_file">>
                        ELSE <<"err_exception">>)
    /\ exitCode' = 1
    /\ pc' = "exited"

(***************************************************************************)
(* Steps of one invocation.                                                *)
(***************************************************************************)
\* Module-level imports (lines 7-9) and the script entry (lines 114-115).
\* A failing `from PIL import Image` is not caught: the interpreter prints
\* the traceback and exits with status 1.
ImportModule ==
    /\ pc = "import"
    /\ IF pilAvailable
         THEN /\ pc' = "main"
              /\ UNCHANGED << out, exitCode >>
         ELSE /\ out' = Append(out, "traceback_import_error")
              /\ exitCode' = 1
              /\ pc' = "exited"
    /\ UNCHANGED << env, hist, fs, dirs, input_image, img, idx, resized_img, ops, opened >>

\* main, lines 83-96: banner, choice of the input path.
MainArgs ==
    /\ pc = "main"
    /\ IF Len(argv) > 0
         THEN /\ input_image' = argv[1]
              /\ out' = Append(out, "banner")
         ELSE /\ input_image' = DEFAULT_IMAGE
              /\ out' = out \o <<"banner", "using_default", "hint_usage">>
    /\ pc' = "check_pil"
    /\ UNCHANGED << env, hist, fs, dirs, img, idx, resized_img, exitCode, ops, opened >>

\* main, lines 98-104: the guarded import.  The module is already imported
\* when control gets here, so the import succeeds.
MainCheckPil ==
    /\ pc = "check_pil"
    /\ IF pilAvailable
         THEN /\ pc' = "open"
              /\ UNCHANGED << out, exitCode >>
         ELSE /\ out' = out \o <<"err_need_pillow", "hint_pip_install">>
              /\ exitCode' = 1
              /\ pc' = "exited"
    /\ UNCHANGED << env, hist, fs, dirs, input_image, img, idx, resized_img, ops, opened >>

\* generate_icons, lines 30-34: Image.open.
OpenImage ==
    /\ pc = "open"
    /\ LET file == fs[input_image] IN
         IF file = NoFile
           THEN /\ ops' = Append(ops, Op("open", 0, <<>>, FALSE))
                /\ Except("FileNotFoundError", Append(out, "reading"))
                /\ UNCHANGED << img, opened >>
           ELSE IF file = CorruptFile
             THEN /\ ops' = Append(ops, Op("open", 0, <<>>, FALSE))
                  /\ Except("OSError", Append(out, "reading"))
                  /\ UNCHANGED << img, opened >>
             ELSE /\ ops' = Append(ops, Op("open", 0, <<>>, TRUE))
                  /\ out' = Append(out, "reading")
                  /\ img' = Image_open(file)
                  /\ opened' = Image_open(file)
                  /\ pc' = "crop"
                  /\ UNCHANGED exitCode
    /\ UNCHANGED << env, hist, fs, dirs, input_image, idx, resized_img >>

\* generate_icons, lines 37-49: the centred square crop.  crop loads the
\* pixel data, which raises on a truncated file.
CropStep ==
    /\ pc = "crop"
    /\ LET width  == img.w
           height == img.h
       IN IF NeedsCrop(width, height)
            THEN LET box     == CropBox(width, height)
                     printed == out \o <<"warn_not_square", "cropping">>
                 IN IF img.kind = "truncated"
                      THEN /\ ops' = Append(ops, Op("crop", 0, box, FALSE))
                           /\ Except("OSError", printed)
                           /\ UNCHANGED img
                      ELSE /\ ops' = Append(ops, Op("crop", 0, box, TRUE))
                           /\ img' = Image_crop(img, box)
                           /\ out' = Append(printed, "cropped")
                           /\ pc' = "convert"
                           /\ UNCHANGED exitCode
            ELSE /\ pc' = "convert"
                 /\ UNCHANGED << img, out, exitCode, ops >>
    /\ UNCHANGED << env, hist, fs, dirs, input_image, idx, resized_img, opened >>

\* generate_icons, lines 52-53: conversion to RGBA, then the loop starts.
ConvertStep ==
    /\ pc = "convert"
    /\ IF NeedsConvert(img.mode)
         THEN IF img.kind = "truncated"
                THEN /\ ops' = Append(ops, Op("convert", 0, <<>>, FALSE))
                     /\ Except("OSError", out)
                     /\ UNCHANGED << img, idx >>
                ELSE /\ ops' = Append(ops, Op("convert", 0, <<>>, TRUE))
                     /\ img' = Image_convert(img, "RGBA")
                     /\ idx' = 1
                     /\ pc' = "makedirs"
                     /\ UNCHANGED << out, exitCode >>
         ELSE /\ idx' = 1
              /\ pc' = "makedirs"
              /\ UNCHANGED << img, out, exitCode, ops >>
    /\ UNCHANGED << env, hist, fs, dirs, input_image, resized_img, opened >>

\* Loop body, lines 57-60: os.makedirs(output_dir, exist_ok=True).  It can
\* raise only when the directory does not exist: FileNotFoundError (a
\* dangling symbolic link on the way) or another OSError (permission
\* denied, ...).  The call is inside the try block, so a FileNotFoundError
\* raised here is caught by the clause of line 74.
MakeDirs ==
    /\ pc = "makedirs"
    /\ LET d == output_dir(ICON_SIZES[idx].folder) IN
         \E outcome \in (IF d \in dirs THEN {"ok"}
                         ELSE {"ok", "FileNotFoundError", "OSError"}) :
            IF outcome # "ok"
              THEN /\ ops' = Append(ops, Op("makedirs", idx, <<>>, FALSE))
                   /\ Except(outcome, out)
                   /\ UNCHANGED dirs
              ELSE /\ ops' = Append(ops, Op("makedirs", idx, <<>>, TRUE))
                   /\ dirs' = dirs \cup {d}
                   /\ pc' = "resize"
                   /\ UNCHANGED << out, exitCode >>
    /\ UNCHANGED << env, hist, fs, input_image, img, idx, resized_img, opened >>

\* Loop body, line 63: img.resize.  It raises on a truncated file (first
\* load of the pixel data) and can raise for lack of memory.
ResizeStep ==
    /\ pc = "resize"
    /\ LET size == ICON_SIZES[idx].size IN
         \E raises \in (IF img.kind = "truncated" THEN {TRUE} ELSE BOOLEAN) :
            IF raises
              THEN /\ ops' = Append(ops, Op("resize", idx, ResizeArg(size), FALSE))
                   /\ Except("Exception", out)
                   /\ UNCHANGED resized_img
              ELSE /\ ops' = Append(ops, Op("resize", idx, ResizeArg(size), TRUE))
                   /\ resized_img' = Image_resize(img, ResizeArg(size))
                   /\ pc' = "save"
                   /\ UNCHANGED << out, exitCode >>
    /\ UNCHANGED << env, hist, fs, dirs, input_image, img, idx, opened >>

\* Loop body, lines 66-69: save as PNG, confirmation, next entry.  A failing
\* save leaves the file as it was (FileNotFoundError: the path is a dangling
\* symbolic link or its directory is gone; "denied": another OSError before
\* anything is written) or partially written (OSError while writing).  The
\* call is inside the try block, so a FileNotFoundError raised here is
\* caught by the clause of line 74.
SaveStep ==
    /\ pc = "save"
    /\ LET folder == ICON_SIZES[idx].folder
           path   == output_path(folder)
       IN \E outcome \in {"saved", "FileNotFoundError", "denied", "partial"} :
            IF outcome = "saved"
              THEN /\ ops' = Append(ops, Op("save", idx, <<>>, TRUE))
                   /\ fs' = [fs EXCEPT ![path] = Image_save(resized_img, "PNG")]
                   /\ out' = Append(out, "ok_" \o folder)
                   /\ idx' = idx + 1
                   /\ pc' = IF idx < NumSizes THEN "makedirs" ELSE "finish"
                   /\ UNCHANGED exitCode
              ELSE /\ ops' = Append(ops, Op("save", idx, <<>>, FALSE))
                   /\ fs' = IF outcome = "partial"
                              THEN [fs EXCEPT ![path] = CorruptFile]
                              ELSE fs
                   /\ Except(IF outcome = "FileNotFoundError"
                               THEN "FileNotFoundError" ELSE "OSError", out)
                   /\ UNCHANGED idx
    /\ UNCHANGED << env, hist, dirs, input_image, img, resized_img, opened >>

\* Lines 71-72 and main's lines 109-112: closing messages, normal return.
Finish ==
    /\ pc = "finish"
    /\ out' = out \o <<"all_done", "saved_to", "next_steps">>
    /\ exitCode' = 0
    /\ pc' = "exited"
    /\ UNCHANGED << env, hist, fs, dirs, input_image, img, idx, resized_img, ops, opened >>

\* The program's own steps.
Step ==
    \/ ImportModule
    \/ MainArgs
    \/ MainCheckPil
    \/ OpenImage
    \/ CropStep
    \/ ConvertStep
    \/ MakeDirs
    \/ ResizeStep
    \/ SaveStep
    \/ Finish

\* The user runs the same command line again (lines 114-115 start a fresh
\* process: no state but the file system survives).
Rerun ==
    /\ pc = "exited"
    /\ run < MaxRuns
    /\ run' = run + 1
    /\ prevExit' = exitCode
    /\ fsStart' = fs
    /\ dirsStart' = dirs
    /\ pc' = "import"
    /\ input_image' = ""
    /\ img' = NoImg
    /\ idx' = 0
    /\ resized_img' = NoImg
    /\ out' = <<>>
    /\ exitCode' = -1
    /\ ops' = <<>>
    /\ opened' = NoImg
    /\ UNCHANGED << env, fs, dirs >>

Next == Step \/ Rerun

Spec == Init /\ [][Next]_vars

\* The interpreter keeps executing the script until it exits.
FairSpec == Spec /\ WF_vars(Step)

TypeOK ==
    /\ pc \in {"import", "main", "check_pil", "open", "crop", "convert",
               "makedirs", "resize", "save", "finish", "exited"}
    /\ exitCode \in {-1, 0, 1}
    /\ run \in 1..MaxRuns
    /\ idx \in 0..(NumSizes + 1)
    /\ dirs \subseteq { output_dir(f) : f \in Folders }
    /\ DirsOf(fs) \subseteq dirs
    /\ img.mode \in Modes \cup {"none"}
    /\ \A p \in DOMAIN fs : fs[p] \in {NoFile, CorruptFile} \/ fs[p].mode \in Modes
    /\ input_image \in Paths \cup {""}

(***************************************************************************)
(* Vocabulary of the properties.  The expected layout is written out       *)
(* literally, independently of ICON_SIZES, BASE_DIR and output_path.       *)
(***************************************************************************)
\* <<path, edge length>> of each icon, in the documented order.
ExpectedIcons ==
    << << "project_guideline/android/java/com/google/research/guideline/res/mipmap-mdpi/ic_launcher.png",    48 >>,
       << "project_guideline/android/java/com/google/research/guideline/res/mipmap-hdpi/ic_launcher.png",    72 >>,
       << "project_guideline/android/java/com/google/research/guideline/res/mipmap-xhdpi/ic_launcher.png",   96 >>,
       << "project_guideline/android/java/com/google/research/guideline/res/mipmap-xxhdpi/ic_launcher.png",  144 >>,
       << "project_guideline/android/java/com/google/research/guideline/res/mipmap-xxxhdpi/ic_launcher.png", 192 >> >>

ExpectedPaths == { ExpectedIcons[k][1] : k \in DOMAIN ExpectedIcons }

\* The per-size confirmation messages, in the documented order.
ExpectedOkTags ==
    << "ok_mipmap-mdpi", "ok_mipmap-hdpi", "ok_mipmap-xhdpi",
       "ok_mipmap-xxhdpi", "ok_mipmap-xxxhdpi" >>

\* Colour modes with an alpha channel.
AlphaModes == {"RGBA", "LA"}

Printed(m) == \E i \in DOMAIN out : out[i] = m

Started(name) == \E i \in DOMAIN ops : ops[i].op = name

Saved(k) == \E i \in DOMAIN ops : ops[i].op = "save" /\ ops[i].k = k /\ ops[i].ok

AllFiveWritten == \A k \in 1..5 : Saved(k)

\* The file at path p is a size x size PNG icon with an alpha channel.
IsIcon(files, p, size) ==
    /\ p \in DOMAIN files
    /\ files[p].kind = "ok"
    /\ files[p].w = size
    /\ files[p].h = size
    /\ files[p].fmt = "PNG"
    /\ files[p].mode \in AlphaModes

\* The paths whose file differs from the one at the start of the run.
Changed == { p \in DOMAIN fs : fs[p] # fsStart[p] }

\* The run is past the conversion step of generate_icons.
PastConvert == idx >= 1 \/ Started("convert")

\* The operations of the for loop, in the order they were started.
LoopOps == SelectSeq(ops, LAMBDA o : o.k > 0)

LoopOpNames == << "makedirs", "resize", "save" >>

\* The confirmation messages printed so far, in order.
OkTags == SelectSeq(out, LAMBDA m : \E k \in DOMAIN ExpectedOkTags : m = ExpectedOkTags[k])

NumSaved == Cardinality({ k \in 1..5 : Saved(k) })

(***************************************************************************)
(* Properties.                                                             *)
(***************************************************************************)

\* C1: a run on a valid square input that meets no error (exit status 0)
\* has written exactly five files, one per size-table entry, at
\* <base>/<density-label>/ic_launcher.png, and the file of each entry is a
\* size x size PNG (48, 72, 96, 144, 192) with an alpha channel.
C1_FiveIconsForSquareInput ==
    (pc = "exited" /\ exitCode = 0 /\ opened.w = opened.h) =>
        /\ AllFiveWritten
        /\ Len(SelectSeq(ops, LAMBDA o : o.op = "save")) = 5
        /\ Changed \subseteq ExpectedPaths
        /\ \A k \in DOMAIN ExpectedIcons :
              IsIcon(fs, ExpectedIcons[k][1], ExpectedIcons[k][2])

\* C1 witness: a successful run on a 512 x 512 input.
C1_Witness ==
    /\ pc = "exited"
    /\ exitCode = 0
    /\ opened.w = 512
    /\ opened.h = 512

\* C2: when no file exists at the input path (and the run gets as far as
\* loading it), the run prints the file-not-found message and exits with a
\* non-zero status; in every case it writes no file, creates no directory
\* and never starts the crop, convert, makedirs, resize or save steps.
C2_MissingInputWritesNothing ==
    (pc = "exited" /\ fsStart[InputPathOf(argv)] = NoFile) =>
        /\ exitCode # 0
        /\ pilAvailable => Printed("err_not_found")
        /\ fs = fsStart
        /\ dirs = dirsStart
        /\ \A i \in DOMAIN ops : ops[i].op = "open" /\ ~ops[i].ok

\* C2 witness: the run has tried to open the missing default input.
C2_Witness ==
    /\ pc = "exited"
    /\ argv = <<>>
    /\ fsStart[DEFAULT_IMAGE] = NoFile
    /\ Started("open")
    /\ Printed("err_not_found")

\* C3: for a non-square input w x h the box passed to crop is
\* (l, t, l+m, t+m) with m = min(w,h), l = floor((w-m)/2), t = floor((h-m)/2),
\* and the working image becomes m x m; 1000 x 800 gives (100, 0, 900, 800)
\* and an 800 x 800 working image.
C3_CenteredCropBox ==
    (opened # NoImg /\ opened.w # opened.h /\ pc # "crop") =>
        LET w == opened.w
            h == opened.h
            m == IF w <= h THEN w ELSE h
        IN  \E i \in DOMAIN ops :
              /\ ops[i].op = "crop"
              /\ LET box == ops[i].arg
                     l == box[1]
                     t == box[2]
                 IN  /\ 2 * l <= w - m /\ w - m < 2 * l + 2
                     /\ 2 * t <= h - m /\ h - m < 2 * t + 2
                     /\ box[3] = l + m
                     /\ box[4] = t + m
                     /\ (w = 1000 /\ h = 800) => box = <<100, 0, 900, 800>>
              /\ ops[i].ok => (img.w = m /\ img.h = m)

\* C3 witness: the 1000 x 800 input has been cropped.
C3_Witness ==
    /\ opened.w = 1000
    /\ opened.h = 800
    /\ \E i \in DOMAIN ops : ops[i].op = "crop" /\ ops[i].ok
    /\ img.w = 800
    /\ img.h = 800

\* C4 (as claimed): when the image library is unavailable the run exits
\* with status 1 and prints the install hint, before any processing: no
\* image is read, no directory or file is created.
C4_MissingDependencyHint ==
    (pc = "exited" /\ ~pilAvailable) =>
        /\ exitCode = 1
        /\ Printed("hint_pip_install")
        /\ ops = <<>>
        /\ fs = fsStart
        /\ dirs = dirsStart

\* C5: every invocation terminates, and its exit status is 0 exactly when
\* all five output files were written by the run, and 1 otherwise.
C5_TerminatesWithExitCode ==
    /\ [](pc = "exited" =>
            /\ exitCode \in {0, 1}
            /\ (exitCode = 0) <=> AllFiveWritten)
    /\ ((pc # "exited") ~> (pc = "exited"))

\* C5 witness: a run has exited with status 0 after writing the five files.
C5_Witness ==
    /\ pc = "exited"
    /\ exitCode = 0
    /\ AllFiveWritten
    /\ NumSaved = 5

\* C6: idempotence.  When a successful run follows a successful run on the
\* same command line, it has overwritten the five files, and the set of
\* files and their pixel dimensions are the same as after the first run.
C6_Idempotent ==
    (pc = "exited" /\ exitCode = 0 /\ prevExit = 0) =>
        /\ AllFiveWritten
        /\ { p \in DOMAIN fs : fs[p] # NoFile } = { p \in DOMAIN fsStart : fsStart[p] # NoFile }
        /\ \A p \in DOMAIN fs : fs[p].w = fsStart[p].w /\ fs[p].h = fsStart[p].h

\* C6 witness: a second successful run after a first successful run, on an
\* input that is itself one of the generated icons.
C6_Witness ==
    /\ pc = "exited"
    /\ exitCode = 0
    /\ prevExit = 0
    /\ run = 2
    /\ InputPathOf(argv) \in ExpectedPaths

\* C7: whenever a resize is performed, the working image is square and in an
\* alpha-capable colour mode.
C7_ResizeOnSquareAlpha ==
    (pc = "resize" \/ Started("resize")) =>
        /\ img.w = img.h
        /\ img.mode \in AlphaModes

\* C7 witness: a resize is about to run on an input that was neither square
\* nor in an alpha mode.
C7_Witness ==
    /\ pc = "resize"
    /\ opened.w # opened.h
    /\ opened.mode = "RGB"

\* The last operation of the exited run is a failed operation of the loop.
LoopFailed ==
    pc = "exited" /\ Len(ops) > 0 /\ ops[Len(ops)].k > 0 /\ ~ops[Len(ops)].ok

\* C8 (the part that holds whatever the exception): entries are processed
\* strictly in table order, each by makedirs, resize, save; nothing runs
\* after a failing operation; when the k-th entry fails the run exits with
\* status 1 after printing one of the two error messages, the files of the
\* entries before k are written and those of the entries after k untouched.
C8_OrderAndNoRollback ==
    /\ \A n \in DOMAIN LoopOps :
          /\ LoopOps[n].k = ((n - 1) \div 3) + 1
          /\ LoopOps[n].op = LoopOpNames[((n - 1) % 3) + 1]
    /\ \A i \in DOMAIN ops : ~ops[i].ok => (i = Len(ops) /\ pc = "exited")
    /\ OkTags = SubSeq(ExpectedOkTags, 1, NumSaved)
    /\ LoopFailed =>
          LET k == ops[Len(ops)].k IN
            /\ exitCode = 1
            /\ Printed("err_exception") \/ Printed("err_not_found")
            /\ \A j \in 1..(k - 1) :
                  IsIcon(fs, ExpectedIcons[j][1], ExpectedIcons[j][2])
            /\ \A j \in (k + 1)..5 :
                  /\ ~Saved(j)
                  /\ fs[ExpectedIcons[j][1]] = fsStart[ExpectedIcons[j][1]]

\* C8 (as claimed): the size-table entries are processed strictly in table
\* order, each by makedirs, resize, save; nothing runs after a failing
\* operation; and when the k-th entry fails the run prints the error (the
\* message of the generic handler, carrying the error's text) and exits
\* with status 1, the files of the entries before k are written and the
\* files of the entries after k are untouched.
C8_InOrderNoRollback ==
    /\ \A n \in DOMAIN LoopOps :
          /\ LoopOps[n].k = ((n - 1) \div 3) + 1
          /\ LoopOps[n].op = LoopOpNames[((n - 1) % 3) + 1]
    /\ \A i \in DOMAIN ops : ~ops[i].ok => (i = Len(ops) /\ pc = "exited")
    /\ OkTags = SubSeq(ExpectedOkTags, 1, NumSaved)
    /\ \A k \in 1..5 : Saved(k) => \A j \in 1..k : Saved(j)
    /\ LoopFailed =>
          LET k == ops[Len(ops)].k IN
            /\ exitCode = 1
            /\ out[Len(out)] = "err_exception"
            /\ ~Printed("err_not_found")
            /\ \A j \in 1..(k - 1) :
                  IsIcon(fs, ExpectedIcons[j][1], ExpectedIcons[j][2])
            /\ \A j \in (k + 1)..5 :
                  /\ ~Saved(j)
                  /\ ExpectedIcons[j][1] \in DOMAIN fs
                  /\ fs[ExpectedIcons[j][1]] = fsStart[ExpectedIcons[j][1]]

\* C8 witness (of the part that holds): the save of the third entry failed;
\* the first two icons are on disk and the fourth was never there.
C8_Witness ==
    /\ pc = "exited"
    /\ Len(ops) > 0
    /\ ops[Len(ops)] = Op("save", 3, <<>>, FALSE)
    /\ IsIcon(fs, ExpectedIcons[2][1], 72)
    /\ fs[ExpectedIcons[4][1]] = NoFile

\* C9 (as claimed): the conversion is performed exactly when the colour
\* mode of the working image is not alpha-capable.
C9_ConvertIffNotAlphaCapable ==
    PastConvert => (Started("convert") <=> opened.mode \notin AlphaModes)

\* C9 (amended): the conversion is performed exactly when the colour mode of
\* the working image is not RGBA; an input that is already square and RGBA
\* is neither cropped nor converted, and the five files are resized
\* directly from it.
C9_ConvertIffNotRGBA ==
    /\ PastConvert => (Started("convert") <=> opened.mode # "RGBA")
    /\ (PastConvert /\ opened.w = opened.h /\ opened.mode = "RGBA") =>
          /\ ~Started("crop")
          /\ ~Started("convert")
          /\ img.w = opened.w /\ img.h = opened.h /\ img.mode = opened.mode
          /\ (pc = "exited" /\ exitCode = 0) => AllFiveWritten

\* C9 witness: a 512 x 512 RGBA input went through to five files with no
\* crop and no conversion.
C9_Witness ==
    /\ pc = "exited"
    /\ exitCode = 0
    /\ opened.w = 512 /\ opened.h = 512 /\ opened.mode = "RGBA"
    /\ ~Started("crop")
    /\ ~Started("convert")
    /\ AllFiveWritten

\* C10 (as claimed): the file at the input path has the same content after
\* the run as before it, for every input path.
C10_InputNeverModified ==
    pc = "exited" => fs[InputPathOf(argv)] = fsStart[InputPathOf(argv)]

\* C10 (amended): the only files a run writes are the five
\* <base>/<density-label>/ic_launcher.png outputs; the file at the input
\* path is unchanged unless the input path is itself one of these five.
C10_OnlyOutputsWritten ==
    /\ Changed \subseteq ExpectedPaths
    /\ InputPathOf(argv) \notin ExpectedPaths =>
          fs[InputPathOf(argv)] = fsStart[InputPathOf(argv)]

\* C10 witness: a successful run on an input outside the five outputs.
C10_Witness ==
    /\ pc = "exited"
    /\ exitCode = 0
    /\ InputPathOf(argv) = "logo.png"
    /\ AllFiveWritten
    /\ Changed # {}

=============================================================================
